---- MODULE Spec2Model ----
(***************************************************************************)
(* Model of app.py, the crypto dashboard script.  One run of the script is *)
(* one behaviour: the sidebar settings are read, the Live Data tab runs    *)
(* (update_live once per polling tick), then the Historical Data tab       *)
(* builds one table per selected coin (get_historical_data).               *)
(*                                                                         *)
(* Numbers in table cells are exact rationals <<num, den>> with den > 0;   *)
(* the missing value (NaN / NaT) is <<0, 0>>.  An optional value (Python   *)
(* None or a value v) is the sequence << >> or <<v>>.                      *)
(***************************************************************************)
EXTENDS Integers, Sequences, FiniteSets, TLC

VARIABLES
    selected_ids,       \* line 51: the selected coin ids, in selection order
    auto_refresh,       \* line 61
    refresh_interval,   \* line 62
    show_ma,            \* line 56
    show_ema,           \* line 57
    live_data,          \* line 88: coin id -> list of {time, price}
    df_plot,            \* line 107: the table update_live is building
    placeholder_chart,  \* lines 89, 121: what was last handed to line_chart
    price,              \* line 110: the last value get_live_price returned
    now,                \* the wall clock read by datetime.now()
    tick,               \* line 126: iterations of range(50) completed
    i,                  \* line 109: position of update_live in selected_ids
    failures,           \* history: price requests that returned None so far
    pc,                 \* position of the script
    all_hist_data,      \* line 177: coin id -> historical table
    h,                  \* line 178: position of the historical loop
    hist_resp,          \* history: the responses the historical loop got
    csv_header,         \* line 232: coin id -> columns of the exported table
    warned              \* line 236: the "no historical data" warning was shown

vars == <<selected_ids, auto_refresh, refresh_interval, show_ma, show_ema,
          live_data, df_plot, placeholder_chart, price, now, tick, i,
          failures, pc, all_hist_data, h, hist_resp, csv_header, warned>>

liveVars == <<live_data, df_plot, placeholder_chart, price, now, tick, i, failures>>
histVars == <<all_hist_data, h, hist_resp, csv_header, warned>>
settings == <<selected_ids, auto_refresh, refresh_interval, show_ma, show_ema>>

---------------------------------------------------------------------------
(* Bounds of the model. *)

\* Polling ticks explored with the full set of price responses.
TickBound == 2
\* Failed price requests allowed in the run of all RefreshTicks ticks.
MaxFailures == 1
\* Largest live price / historical price value.
MaxPrice == 2
\* Historical price series of every shape up to this length.
ShortLen == 3
\* Historical ramp series up to this length.
LongLen == 26

(* Program constants. *)
RefreshTicks == 50
MinInterval == 1
MaxInterval == 10
DefaultInterval == 3
HttpOk == 200

Coins == {"btc", "eth"}

---------------------------------------------------------------------------
(* Exact arithmetic on cells. *)

NaN == <<0, 0>>
IsNaN(x) == x[2] = 0

Abs(n) == IF n < 0 THEN -n ELSE n

RECURSIVE GCD(_, _)
GCD(a, b) == IF b = 0 THEN a ELSE GCD(b, a % b)

Rat(n, d) ==
    LET g == GCD(Abs(n), Abs(d))
        s == IF d < 0 THEN -1 ELSE 1
    IN  <<(s * n) \div g, (s * d) \div g>>

FromInt(n) == <<n, 1>>

\* Arithmetic propagates the missing value, as IEEE NaN does.
RAdd(x, y) ==
    IF IsNaN(x) \/ IsNaN(y) THEN NaN
    ELSE LET g == GCD(x[2], y[2])
         IN  Rat(x[1] * (y[2] \div g) + y[1] * (x[2] \div g), (x[2] \div g) * y[2])
RNeg(x) == IF IsNaN(x) THEN NaN ELSE <<-x[1], x[2]>>
RSub(x, y) == RAdd(x, RNeg(y))
RMul(x, y) ==
    IF IsNaN(x) \/ IsNaN(y) THEN NaN
    ELSE LET a == Rat(x[1], y[2])
             b == Rat(y[1], x[2])
         IN  <<a[1] * b[1], a[2] * b[2]>>
RDiv(x, y) ==
    IF IsNaN(x) \/ IsNaN(y) \/ y[1] = 0 THEN NaN
    ELSE RMul(x, Rat(y[2], y[1]))
RLeq(x, y) == x[1] * y[2] <= y[1] * x[2]
RMax(x, y) == IF RLeq(x, y) THEN y ELSE x
RMin(x, y) == IF RLeq(x, y) THEN x ELSE y

Range(s) == {s[k] : k \in 1..Len(s)}

---------------------------------------------------------------------------
(* pandas tables: an index, the column names in insertion order, and one   *)
(* sequence of cells per column, parallel to the index.  A Series is an    *)
(* index with one parallel sequence of cells.                              *)

\* pd.DataFrame()
EmptyFrame == [index |-> <<>>, columns |-> <<>>, data |-> <<>>]

MkSeries(idx, vals) == [index |-> idx, values |-> vals]

\* Series.reindex(idx): the cell of each label of idx, NaN where the series
\* has no such label.
Reindex(ser, idx) ==
    [k \in 1..Len(idx) |->
        IF \E j \in 1..Len(ser.index) : ser.index[j] = idx[k]
        THEN ser.values[CHOOSE j \in 1..Len(ser.index) : ser.index[j] = idx[k]]
        ELSE NaN]

\* df[name] = ser.  DataFrame._ensure_valid_index: a frame whose index is
\* empty takes the index of a non-empty value; after that the value is
\* reindexed to the frame's index (labels the frame lacks are dropped).
SetItem(df, name, ser) ==
    LET idx  == IF Len(df.index) = 0 /\ Len(ser.index) > 0
                THEN ser.index ELSE df.index
        old  == [c \in DOMAIN df.data |->
                    IF idx = df.index THEN df.data[c]
                    ELSE [k \in 1..Len(idx) |-> NaN]]
        cols == IF name \in Range(df.columns) THEN df.columns
                ELSE Append(df.columns, name)
    IN  [index   |-> idx,
         columns |-> cols,
         data    |-> [c \in DOMAIN old \cup {name} |->
                        IF c = name THEN Reindex(ser, idx) ELSE old[c]]]

---------------------------------------------------------------------------
(* Live Data tab, lines 86-139. *)

\* What the HTTP request of get_live_price can do: raise, answer with a
\* status, answer 200 with or without the coin's price in the body.
LiveResponses ==
    {[kind |-> "raise", status |-> 0, value |-> <<>>],
     [kind |-> "http", status |-> 500, value |-> <<>>],
     [kind |-> "http", status |-> HttpOk, value |-> <<>>]}
    \cup {[kind |-> "http", status |-> HttpOk, value |-> <<p>>] : p \in 0..MaxPrice}

\* The run of all ticks: one good price and one failure.
SessionResponses ==
    {[kind |-> "raise", status |-> 0, value |-> <<>>],
     [kind |-> "http", status |-> HttpOk, value |-> <<1>>]}

\* get_live_price: None (<<>>) or the price the body holds.
get_live_price(resp) ==
    IF resp.kind = "raise" THEN <<>>
    ELSE IF resp.status /= HttpOk THEN <<>>
    ELSE resp.value

\* Python truth of `price`: None and 0 are false.
Truthy(opt) == opt /= <<>> /\ opt[1] /= 0

\* pd.DataFrame(live_data[coin_id]).set_index("time")["price"]
PriceSeries(buf) ==
    MkSeries([k \in 1..Len(buf) |-> buf[k].time],
             [k \in 1..Len(buf) |-> FromInt(buf[k].price)])

Selections ==
    {<<>>} \cup {<<c>> : c \in Coins}
    \cup {<<x[1], x[2]>> : x \in {y \in Coins \X Coins : y[1] /= y[2]}}

\* Lines 107-108: update_live starts with an empty table.
BeginUpdate ==
    /\ df_plot' = EmptyFrame
    /\ i' = 1
    /\ pc' = "fetch"

\* Line 126: the next iteration of range(50) calls update_live.  `limit`
\* caps the ticks a specification explores.
StartTick(limit) ==
    /\ pc = "loop"
    /\ tick < RefreshTicks
    /\ tick < limit
    /\ BeginUpdate
    /\ UNCHANGED <<settings, live_data, placeholder_chart, price, now, tick,
                   failures, histVars>>

\* Line 109: the loop over selected_ids has a coin left.
CanFetch ==
    /\ pc = "fetch"
    /\ i <= Len(selected_ids)

\* Lines 109-120: one iteration of the loop over selected_ids.  The request
\* takes `d` clock units; a true price is appended with the time read then
\* and the coin's whole buffer becomes a column of df_plot.
FetchPrice(Resps, Steps, maxFail) ==
    /\ CanFetch
    /\ \E resp \in Resps, d \in Steps :
        LET p == get_live_price(resp)
            c == selected_ids[i]
            t == now + d
            buf == Append(live_data[c], [time |-> t, price |-> p[1]])
        IN  /\ p = <<>> => failures < maxFail
            /\ price' = p
            /\ now' = t
            /\ failures' = IF p = <<>> THEN failures + 1 ELSE failures
            /\ IF Truthy(p)
               THEN /\ live_data' = [live_data EXCEPT ![c] = buf]
                    /\ df_plot' = SetItem(df_plot, c, PriceSeries(buf))
               ELSE UNCHANGED <<live_data, df_plot>>
    /\ i' = i + 1
    /\ UNCHANGED <<settings, placeholder_chart, tick, pc, histVars>>

\* Line 121: the table is handed to the chart; update_live returns.
LineChart ==
    /\ pc = "fetch"
    /\ i > Len(selected_ids)
    /\ placeholder_chart' = <<df_plot>>
    /\ pc' = IF auto_refresh THEN "sleep" ELSE "download"
    /\ UNCHANGED <<settings, live_data, df_plot, price, now, tick, i,
                   failures, histVars>>

\* Line 128: time.sleep(refresh_interval), then the next iteration.
Sleep ==
    /\ pc = "sleep"
    /\ now' = now + refresh_interval
    /\ tick' = tick + 1
    /\ pc' = "loop"
    /\ UNCHANGED <<settings, live_data, df_plot, placeholder_chart, price, i,
                   failures, histVars>>

\* Finish with the loop one iteration short.
Finish_early ==
    /\ pc = "loop"
    /\ tick >= RefreshTicks - 1
    /\ pc' = "finished"
    /\ UNCHANGED <<settings, liveVars, histVars>>

\* Line 129: range(50) is exhausted.
Finish ==
    /\ pc = "loop"
    /\ tick >= RefreshTicks
    /\ pc' = "finished"
    /\ UNCHANGED <<settings, liveVars, histVars>>

\* Lines 131-132: without auto-refresh, update_live runs once if the button
\* was clicked.
Button ==
    /\ pc = "button"
    /\ \E clicked \in BOOLEAN :
        IF clicked THEN BeginUpdate
        ELSE pc' = "download" /\ UNCHANGED <<df_plot, i>>
    /\ UNCHANGED <<settings, live_data, placeholder_chart, price, now, tick,
                   failures, histVars>>

\* The state when the Live Data tab is entered (lines 86-89, 124).
InitLive(selections, autos, intervals) ==
    /\ selected_ids \in selections
    /\ auto_refresh \in autos
    /\ refresh_interval \in intervals
    /\ show_ma = TRUE
    /\ show_ema = TRUE
    /\ live_data = [c \in Range(selected_ids) |-> <<>>]
    /\ df_plot = EmptyFrame
    /\ placeholder_chart = <<>>
    /\ price = <<>>
    /\ now = 0
    /\ tick = 0
    /\ i = 1
    /\ failures = 0
    /\ pc = IF auto_refresh THEN "loop" ELSE "button"
    /\ all_hist_data = <<>>
    /\ h = 1
    /\ hist_resp = <<>>
    /\ csv_header = <<>>
    /\ warned = FALSE

\* The Live Data tab with every price response, its first TickBound ticks.
Init == InitLive(Selections, BOOLEAN, {MinInterval, MaxInterval})

Next ==
    \/ StartTick(TickBound)
    \/ FetchPrice(LiveResponses, {0, 1}, Len(selected_ids) * RefreshTicks)
    \/ LineChart
    \/ Sleep
    \/ Button

Spec == Init /\ [][Next]_vars

\* The whole auto-refresh run of RefreshTicks ticks, with at most
\* MaxFailures failed requests, for no coin, one coin and two coins.
InitSession ==
    InitLive({sel \in Selections : sel \in {<<>>, <<"btc">>, <<"btc", "eth">>}},
             {TRUE}, {MinInterval})

NextSession ==
    \/ StartTick(RefreshTicks)
    \/ FetchPrice(SessionResponses, {1}, MaxFailures)
    \/ LineChart
    \/ Sleep
    \/ Finish

SpecSession == InitSession /\ [][NextSession]_vars /\ WF_vars(NextSession)

---------------------------------------------------------------------------
(* Historical Data tab, lines 144-236. *)

Ints(n) == [k \in 1..n |-> k - 1]
Col(df, name) == MkSeries(df.index, df.data[name])

\* pd.DataFrame(rows, columns=[a, b]) of a list of pairs: a RangeIndex.
PairFrame(rows, a, b) ==
    [index   |-> Ints(Len(rows)),
     columns |-> <<a, b>>,
     data    |-> [c \in {a, b} |->
                    [k \in 1..Len(rows) |->
                        FromInt(rows[k][IF c = a THEN 1 ELSE 2])]]]

\* pd.to_datetime(ser, unit="ms"): milliseconds become instants, held as
\* seconds since the epoch.
to_datetime_ms(ser) ==
    MkSeries(ser.index,
             [k \in 1..Len(ser.values) |->
                IF IsNaN(ser.values[k]) THEN NaN
                ELSE RDiv(ser.values[k], FromInt(1000))])

\* Series.shift(1)
shift1(ser) ==
    MkSeries(ser.index,
             [k \in 1..Len(ser.values) |->
                IF k = 1 THEN NaN ELSE ser.values[k - 1]])

\* The rows lo..hi of xs folded with `op`, skipping missing values; NaN if
\* all are missing.  The range is halved, so the depth stays small.
RECURSIVE Aggregate(_, _, _, _)
Aggregate(xs, lo, hi, op) ==
    IF lo > hi THEN NaN
    ELSE IF lo = hi THEN xs[lo]
    ELSE LET mid == (lo + hi) \div 2
             a == Aggregate(xs, lo, mid, op)
             b == Aggregate(xs, mid + 1, hi, op)
         IN  IF IsNaN(a) THEN b
             ELSE IF IsNaN(b) THEN a
             ELSE CASE op = "sum" -> RAdd(a, b)
                    [] op = "max" -> RMax(a, b)
                    [] op = "min" -> RMin(a, b)

\* Series.rolling(w, min_periods=minp): per row, the fold of the window of
\* the w rows ending there, divided by the number of observations for the
\* mean; NaN while the window holds fewer than minp observations.
Rolling(ser, w, minp, op) ==
    MkSeries(ser.index,
             [k \in 1..Len(ser.values) |->
                LET lo   == IF k - w + 1 < 1 THEN 1 ELSE k - w + 1
                    nobs == Cardinality({j \in lo..k : ~IsNaN(ser.values[j])})
                IN  IF nobs < minp \/ nobs = 0 THEN NaN
                    ELSE IF op = "mean"
                    THEN RDiv(Aggregate(ser.values, lo, k, "sum"), FromInt(nobs))
                    ELSE Aggregate(ser.values, lo, k, op)])

\* rolling_extreme with min_periods=1.
rolling_extreme_minp1(ser, w, op) == Rolling(ser, w, 1, op)

\* Series.rolling(w).max() / .min(): min_periods is the window.
rolling_extreme(ser, w, op) == Rolling(ser, w, w, op)

\* rolling_mean with a window one row longer.
rolling_mean_wide(ser, w) == Rolling(ser, w + 1, w + 1, "mean")

\* Series.rolling(w).mean()
rolling_mean(ser, w) == Rolling(ser, w, w, "mean")

\* Series.ewm(span=span, adjust=False).mean(): pandas' ewma loop with
\* com = (span - 1) / 2, alpha = 1 / (1 + com), ignore_na=False.
RECURSIVE Ewma(_, _, _, _, _)
Ewma(xs, alpha, weighted, old_wt, out) ==
    IF Len(out) >= Len(xs) THEN out
    ELSE LET cur == xs[Len(out) + 1]
             factor == RSub(FromInt(1), alpha)
             wt  == RMul(old_wt, factor)
             avg == RDiv(RAdd(RMul(wt, weighted), RMul(alpha, cur)),
                         RAdd(wt, alpha))
         IN  IF IsNaN(weighted)
             THEN Ewma(xs, alpha, cur, FromInt(1), Append(out, cur))
             ELSE IF IsNaN(cur)
             THEN Ewma(xs, alpha, weighted, wt, Append(out, weighted))
             ELSE Ewma(xs, alpha, avg, FromInt(1), Append(out, avg))

\* ewm_mean with the span taken as the centre of mass: ewm(com=span).
ewm_mean_com(ser, span) ==
    LET alpha == RDiv(FromInt(1), RAdd(FromInt(1), FromInt(span)))
    IN  MkSeries(ser.index,
                 IF Len(ser.values) = 0 THEN <<>>
                 ELSE Ewma(ser.values, alpha, ser.values[1], FromInt(1),
                           <<ser.values[1]>>))

ewm_mean(ser, span) ==
    LET com   == RDiv(FromInt(span - 1), FromInt(2))
        alpha == RDiv(FromInt(1), RAdd(FromInt(1), com))
    IN  MkSeries(ser.index,
                 IF Len(ser.values) = 0 THEN <<>>
                 ELSE Ewma(ser.values, alpha, ser.values[1], FromInt(1),
                           <<ser.values[1]>>))

\* WithMA that computes the averages whatever the checkbox says.
WithMA_always(df, ma) ==
    SetItem(SetItem(df, "MA7", rolling_mean(Col(df, "close"), 7)),
            "MA25", rolling_mean(Col(df, "close"), 25))

\* Lines 166-168.
WithMA(df, ma) ==
    IF ma
    THEN SetItem(SetItem(df, "MA7", rolling_mean(Col(df, "close"), 7)),
                 "MA25", rolling_mean(Col(df, "close"), 25))
    ELSE df

\* Lines 169-171.
WithEMA(df, ema) ==
    IF ema
    THEN SetItem(SetItem(df, "EMA12", ewm_mean(Col(df, "close"), 12)),
                 "EMA26", ewm_mean(Col(df, "close"), 26))
    ELSE df

\* Lines 159-164: the price table and its candle columns.
WithCandles(prices) ==
    LET d0 == PairFrame(prices, "timestamp", "price")
        d1 == SetItem(d0, "time", to_datetime_ms(Col(d0, "timestamp")))
        d2 == SetItem(d1, "open", shift1(Col(d1, "price")))
        d3 == SetItem(d2, "close", Col(d2, "price"))
        d4 == SetItem(d3, "high", rolling_extreme(Col(d3, "price"), 2, "max"))
    IN  SetItem(d4, "low", rolling_extreme(Col(d4, "price"), 2, "min"))

\* Line 165: the volumes, aligned to the table's rows by position.
WithVolume(df, volumes) ==
    SetItem(df, "volume", Col(PairFrame(volumes, "timestamp", "volume"), "volume"))

\* Lines 150-172, the body of the try: what it returns, or that it raised.
HistoricalTry(resp, ma, ema) ==
    IF resp.kind = "raise" THEN [raised |-> TRUE, value |-> <<>>]
    ELSE IF resp.status /= HttpOk THEN [raised |-> FALSE, value |-> <<>>]
    ELSE IF ~resp.json THEN [raised |-> TRUE, value |-> <<>>]
    ELSE IF "prices" \notin resp.fields \/ "total_volumes" \notin resp.fields
         THEN [raised |-> FALSE, value |-> <<>>]
    ELSE [raised |-> FALSE,
          value  |-> <<WithEMA(WithMA(WithVolume(WithCandles(resp.prices),
                                                 resp.total_volumes), ma), ema)>>]

\* get_historical_data without the except clause.
get_historical_data_noexcept(resp, ma, ema) == HistoricalTry(resp, ma, ema)

\* Lines 148-174: get_historical_data; the bare except returns None.
get_historical_data(resp, ma, ema) ==
    LET r == HistoricalTry(resp, ma, ema)
    IN  IF r.raised THEN [raised |-> FALSE, value |-> <<>>] ELSE r

\* Lines 229-232: the columns of the exported table.
ExportColumns(df) ==
    <<"time", "open", "high", "low", "close", "volume">>
    \o SelectSeq(<<"MA7", "MA25", "EMA12", "EMA26">>,
                 LAMBDA col : col \in Range(df.columns))

(* The responses of the historical source. *)

\* Every price series up to length n.
SeriesUpTo(n) == UNION {[1..m -> 1..MaxPrice] : m \in 0..n}

\* Lengths around the two windows, and the longest.
LongLens == {n \in {6, 7, 8, 24, 25, LongLen} : n > ShortLen}

\* Long series: constant, rising, and a wave of period 3.
LongSeries(steady) ==
    {[k \in 1..n |-> a] : n \in LongLens, a \in 1..MaxPrice}
    \cup IF steady THEN {}
         ELSE {[k \in 1..n |-> a + k - 1] : n \in LongLens, a \in 1..MaxPrice}
              \cup {[k \in 1..n |-> 1 + ((a + k) % 3)] : n \in LongLens, a \in 1..MaxPrice}

\* Samples every 500 ms.
Stamped(xs) == [k \in 1..Len(xs) |-> <<500 * k, xs[k]>>]

\* Volumes come one per price sample, or lack the latest one.
VolumeLists(n) ==
    {[k \in 1..m |-> 10 * k] : m \in {n} \cup (IF n > 0 THEN {n - 1} ELSE {})}

HistFailure(kind, status, json, fields) ==
    [kind |-> kind, status |-> status, json |-> json, fields |-> fields,
     prices |-> Stamped(<<1>>), total_volumes |-> Stamped(<<10>>)]

\* `steady`: the long series are constant ones.  The exponential average of
\* a long varying series has a denominator of (span + 1)^length, beyond the
\* machine integers.  `rich`: every series up to ShortLen and the
\* long ones, for a selection of one coin; a selection of several coins
\* draws each coin's series from those of length 2 and less.
HistSeries(steady, rich) ==
    IF rich THEN SeriesUpTo(ShortLen) \cup LongSeries(steady) ELSE SeriesUpTo(2)

HistResponses(steady, rich) ==
    {HistFailure("raise", 0, FALSE, {}),
     HistFailure("http", 500, TRUE, {"prices", "total_volumes"}),
     HistFailure("http", HttpOk, FALSE, {}),
     HistFailure("http", HttpOk, TRUE, {}),
     HistFailure("http", HttpOk, TRUE, {"prices"}),
     HistFailure("http", HttpOk, TRUE, {"total_volumes"})}
    \cup UNION {{[kind |-> "http", status |-> HttpOk, json |-> TRUE,
                   fields |-> {"prices", "total_volumes"},
                   prices |-> Stamped(xs), total_volumes |-> Stamped(vs)] :
                    vs \in VolumeLists(Len(xs))} :
                 xs \in HistSeries(steady, rich)}

\* Lines 178-181: one iteration of the loop over selected_ids.  An exception
\* that get_historical_data let through would end the script.
HistFetch ==
    /\ pc = "hist"
    /\ h <= Len(selected_ids)
    /\ \E resp \in HistResponses(show_ema, Len(selected_ids) = 1) :
        LET r == get_historical_data(resp, show_ma, show_ema)
            c == selected_ids[h]
        IN  /\ hist_resp' = Append(hist_resp, resp)
            /\ IF r.raised
               THEN pc' = "crashed" /\ UNCHANGED <<all_hist_data, h>>
               ELSE
                 /\ all_hist_data' =
                        IF r.value /= <<>>
                        THEN [x \in DOMAIN all_hist_data \cup {c} |->
                                IF x = c THEN r.value[1] ELSE all_hist_data[x]]
                        ELSE all_hist_data
                 /\ h' = h + 1
                 /\ pc' = pc
    /\ UNCHANGED <<settings, liveVars, csv_header, warned>>

\* Lines 183-236: the chart and the exports, or the warning.
HistShow ==
    /\ pc = "hist"
    /\ h > Len(selected_ids)
    /\ IF DOMAIN all_hist_data /= {}
       THEN /\ csv_header' = [c \in DOMAIN all_hist_data |->
                                ExportColumns(all_hist_data[c])]
            /\ warned' = warned
       ELSE /\ warned' = TRUE
            /\ csv_header' = csv_header
    /\ pc' = "hist_done"
    /\ UNCHANGED <<settings, liveVars, all_hist_data, h, hist_resp>>

\* The Historical Data tab is entered after a Live Data tab whose button was
\* not clicked (auto-refresh off, default interval).
InitHist ==
    /\ selected_ids \in Selections
    /\ auto_refresh = FALSE
    /\ refresh_interval = DefaultInterval
    /\ show_ma \in BOOLEAN
    /\ show_ema \in BOOLEAN
    /\ live_data = [c \in Range(selected_ids) |-> <<>>]
    /\ df_plot = EmptyFrame
    /\ placeholder_chart = <<>>
    /\ price = <<>>
    /\ now = 0
    /\ tick = 0
    /\ i = 1
    /\ failures = 0
    /\ pc = "hist"
    /\ all_hist_data = <<>>
    /\ h = 1
    /\ hist_resp = <<>>
    /\ csv_header = <<>>
    /\ warned = FALSE

NextHist == HistFetch \/ HistShow

SpecHist == InitHist /\ [][NextHist]_vars

---------------------------------------------------------------------------
(* Properties of the Live Data tab. *)

Timestamps(c) == {live_data[c][k].time : k \in 1..Len(live_data[c])}
AllTimestamps == UNION {Timestamps(c) : c \in DOMAIN live_data}

\* update_live has returned and no later call of it has started.
TickDone ==
    /\ placeholder_chart /= <<>>
    /\ pc \in {"sleep", "loop", "finished", "download"}

\* C1: after every polling tick the rows of the table handed to the chart
\* are exactly the timestamps held by all the coins' buffers.
C1_RowsAreUnion ==
    TickDone => Range(placeholder_chart[1].index) = AllTimestamps

\* C2: after every polling tick every coin with a non-empty buffer has a
\* column, every sample (t, p) of its buffer is the cell p at row t, and the
\* column's cells at all other rows are missing.
C2_RebuiltFromBuffers ==
    TickDone =>
        LET df == placeholder_chart[1] IN
        \A c \in DOMAIN live_data :
            live_data[c] /= <<>> =>
                /\ c \in Range(df.columns)
                /\ \A j \in 1..Len(live_data[c]) :
                     \E k \in 1..Len(df.index) :
                        /\ df.index[k] = live_data[c][j].time
                        /\ df.data[c][k] = FromInt(live_data[c][j].price)
                /\ \A k \in 1..Len(df.index) :
                     df.index[k] \notin Timestamps(c) => IsNaN(df.data[c][k])

\* C3: an iteration of update_live appends {now, price} to the coin's buffer
\* if get_live_price returned a price, whatever its value, and leaves the
\* buffer as it is if it returned none; no other buffer and no other step
\* changes a buffer.
C3_AppendIffPriceReturned ==
    [][IF pc = "fetch" /\ i <= Len(selected_ids)
       THEN \A c \in DOMAIN live_data :
                live_data'[c] =
                    IF c = selected_ids[i] /\ price' /= <<>>
                    THEN Append(live_data[c], [time |-> now', price |-> price'[1]])
                    ELSE live_data[c]
       ELSE live_data' = live_data]_vars

\* Steps the auto-refresh run still has to take: per tick the call, one
\* iteration per selected coin, the chart and the wait; then the exit.
StepsLeft ==
    LET n == Len(selected_ids)
        whole == (RefreshTicks - tick) * (n + 3) + 1
    IN  CASE pc = "loop" -> whole
          [] pc = "fetch" -> whole - i
          [] pc = "sleep" -> whole - (n + 2)
          [] OTHER -> 0

\* C10: the auto-refresh loop ends in "finished" after exactly 50 ticks,
\* whatever requests failed, with at most 50 samples in every buffer: every
\* step brings the end one step nearer and, until "finished", a coin is
\* left to ask for or another step is possible; a tick starts only from the head of the loop, hands its table
\* over only after the last selected coin, and only the wait after a tick
\* counts it.
C10_FiftySequentialTicks ==
    /\ [](pc = "finished" =>
            /\ tick = 50
            /\ \A c \in DOMAIN live_data : Len(live_data[c]) <= 50)
    /\ [](StepsLeft >= 0 /\ (StepsLeft = 0 <=> pc = "finished"))
    /\ [](\/ pc = "finished"
          \/ CanFetch
          \/ ENABLED (StartTick(RefreshTicks) \/ LineChart \/ Sleep \/ Finish))
    /\ [][/\ StepsLeft' = StepsLeft - 1
          /\ (pc' = "fetch" /\ pc /= "fetch") => (pc = "loop" /\ i' = 1)
          /\ (pc = "fetch" /\ pc' /= "fetch") =>
                (i > Len(selected_ids) /\ pc' = "sleep")
          /\ tick' /= tick =>
                (pc = "sleep" /\ tick' = tick + 1 /\ now' >= now + 1)
          /\ pc' = "loop" => pc = "sleep"]_vars

C10_FinishedDespiteFailure ==
    /\ pc = "finished"
    /\ failures > 0
    /\ Len(selected_ids) = 2
    /\ \E c \in DOMAIN live_data : Len(live_data[c]) = 49

---------------------------------------------------------------------------
(* Properties of the Historical Data tab. *)

\* The source was unavailable or its response malformed.
Failed(resp) ==
    \/ resp.kind = "raise"
    \/ resp.status /= 200
    \/ ~resp.json
    \/ "prices" \notin resp.fields
    \/ "total_volumes" \notin resp.fields

\* A successful, well-formed response with an empty price series.
NoData(resp) == ~Failed(resp) /\ resp.prices = <<>>

\* The positions of selected_ids whose request has been answered.
Fetched == 1..Len(hist_resp)

\* The prices of the response answered at position k.
PricesAt(k) == [j \in 1..Len(hist_resp[k].prices) |-> hist_resp[k].prices[j][2]]

\* The positions whose table is in all_hist_data.
Built == {k \in Fetched : selected_ids[k] \in DOMAIN all_hist_data}
TableAt(k) == all_hist_data[selected_ids[k]]

\* C4: a coin whose request raised, was answered with another status than
\* success, or lacks the prices or the total_volumes field has no table in
\* all_hist_data; no exception leaves get_historical_data; the loop goes on
\* to every other selected coin, and a coin whose response has none of these
\* faults gets its table.
C4_FailedFetchAbsent ==
    /\ pc /= "crashed"
    /\ h = Len(hist_resp) + 1
    /\ \A k \in Fetched :
         Failed(hist_resp[k]) <=> selected_ids[k] \notin DOMAIN all_hist_data
    /\ pc = "hist_done" => Len(hist_resp) = Len(selected_ids)
    /\ DOMAIN all_hist_data \subseteq {selected_ids[k] : k \in Fetched}

C4_SecondCoinAfterFailure ==
    /\ pc = "hist_done"
    /\ Len(selected_ids) = 2
    /\ hist_resp[1].kind = "raise"
    /\ DOMAIN all_hist_data = {selected_ids[2]}

\* C5: a coin whose response is successful and well-formed but holds no
\* prices has no table in all_hist_data, and when every selected coin failed
\* or had no prices the warning is shown.
C5_NoDataExcluded ==
    /\ \A k \in Fetched :
         NoData(hist_resp[k]) => selected_ids[k] \notin DOMAIN all_hist_data
    /\ (pc = "hist_done" /\
        \A k \in Fetched : Failed(hist_resp[k]) \/ NoData(hist_resp[k]))
         => warned

Indicators == {"MA7", "MA25", "EMA12", "EMA26"}
IndicatorsOf(columns) == Range(columns) \cap Indicators

\* A well-formed response.
SampleResponse ==
    [kind |-> "http", status |-> 200, json |-> TRUE,
     fields |-> {"prices", "total_volumes"},
     prices |-> Stamped(<<1, 2>>), total_volumes |-> Stamped(<<10, 20>>)]

SampleColumns(ma, ema) ==
    get_historical_data(SampleResponse, ma, ema).value[1].columns

\* C6 as stated: for a coin whose table was built, each of the 16 sets of
\* indicators is the set of indicator columns of a table, and of its export,
\* under some setting.
C6_IndependentToggles ==
    \A k \in Built :
        \A S \in SUBSET Indicators :
            \E ma, ema \in BOOLEAN :
                /\ IndicatorsOf(SampleColumns(ma, ema)) = S
                /\ IndicatorsOf(ExportColumns([columns |-> SampleColumns(ma, ema)])) = S

EnabledIndicators(ma, ema) ==
    (IF ma THEN <<"MA7", "MA25">> ELSE <<>>)
    \o (IF ema THEN <<"EMA12", "EMA26">> ELSE <<>>)

\* C6 amended: the indicators are switched in two pairs, MA7 with MA25 by
\* show_ma and EMA12 with EMA26 by show_ema; every table, and its export,
\* holds exactly the columns of the pairs switched on, a pair switched off
\* has no column and no data, and each of the 4 settings gives its own set.
C6_PairedToggles ==
    /\ \A c \in DOMAIN all_hist_data :
         LET df == all_hist_data[c] IN
         /\ IndicatorsOf(df.columns) = Range(EnabledIndicators(show_ma, show_ema))
         /\ DOMAIN df.data = Range(df.columns)
    /\ \A c \in DOMAIN csv_header :
         csv_header[c] = <<"time", "open", "high", "low", "close", "volume">>
                         \o EnabledIndicators(show_ma, show_ema)
    /\ \A ma, ema \in BOOLEAN :
         IndicatorsOf(SampleColumns(ma, ema)) = Range(EnabledIndicators(ma, ema))

C6_OnlyMovingAverages ==
    /\ pc = "hist_done"
    /\ show_ma /\ ~show_ema
    /\ \E c \in DOMAIN csv_header :
         /\ Len(all_hist_data[c].index) >= 7
         /\ IndicatorsOf(csv_header[c]) = {"MA7", "MA25"}

IntMax(a, b) == IF a >= b THEN a ELSE b
IntMin(a, b) == IF a <= b THEN a ELSE b

\* C7: the candle columns have the length of the price series P; close is
\* P; open, high and low are missing in the first row and from the second
\* row on are the previous price, the larger and the smaller of the previous
\* and the current price, so that low <= open, close <= high.
C7_Candles ==
    \A k \in Built :
        LET P == PricesAt(k)
            d == TableAt(k).data
        IN  /\ \A col \in {"open", "high", "low", "close"} : Len(d[col]) = Len(P)
            /\ \A j \in 1..Len(P) : d["close"][j] = FromInt(P[j])
            /\ Len(P) >= 1 =>
                 IsNaN(d["open"][1]) /\ IsNaN(d["high"][1]) /\ IsNaN(d["low"][1])
            /\ \A j \in 2..Len(P) :
                 /\ d["open"][j] = FromInt(P[j - 1])
                 /\ d["high"][j] = FromInt(IntMax(P[j - 1], P[j]))
                 /\ d["low"][j] = FromInt(IntMin(P[j - 1], P[j]))
                 /\ RLeq(d["low"][j], d["open"][j]) /\ RLeq(d["open"][j], d["high"][j])
                 /\ RLeq(d["low"][j], d["close"][j]) /\ RLeq(d["close"][j], d["high"][j])

C7_FallThenRise ==
    \E k \in Built : PricesAt(k) = <<2, 1, 2>>

RECURSIVE SumInts(_, _, _)
SumInts(P, lo, hi) == IF lo > hi THEN 0 ELSE P[lo] + SumInts(P, lo + 1, hi)

\* C8: for w = 7 and w = 25 the moving-average column is missing in the
\* first w - 1 rows and in every later row is the mean of the w closes that
\* end at the row; closes 1..7 give MA7 = 4 in row 7 and none in row 6.
C8_MovingAverage ==
    \A k \in Built :
        show_ma =>
            LET P == PricesAt(k)
                d == TableAt(k).data
            IN  /\ \A w \in {7, 25} :
                     LET ma == d[IF w = 7 THEN "MA7" ELSE "MA25"] IN
                     /\ Len(ma) = Len(P)
                     /\ \A j \in 1..Len(P) :
                          IF j < w THEN IsNaN(ma[j])
                          ELSE ma[j] = Rat(SumInts(P, j - w + 1, j), w)
                /\ P = <<1, 2, 3, 4, 5, 6, 7>> =>
                     d["MA7"][7] = <<4, 1>> /\ IsNaN(d["MA7"][6])

C8_BothWindowsFilled ==
    \E k \in Built :
        /\ show_ma
        /\ Len(PricesAt(k)) > 25
        /\ PricesAt(k)[1] /= PricesAt(k)[2]
        /\ ~IsNaN(TableAt(k).data["MA25"][26])

\* C9: for span 12 and span 26, with alpha = 2 / (span + 1), the column is
\* the first close in the first row and alpha * close + (1 - alpha) * (the
\* row before) in every later row, no row missing; constant closes give the
\* constant, and closes 1, 2 give EMA12 = 1 + 2/13 in the second row.
C9_ExponentialAverage ==
    \A k \in Built :
        show_ema =>
            LET P == PricesAt(k)
                d == TableAt(k).data
            IN  /\ \A s \in {12, 26} :
                     LET e == d[IF s = 12 THEN "EMA12" ELSE "EMA26"]
                         alpha == Rat(2, s + 1)
                     IN  /\ Len(e) = Len(P)
                         /\ Len(P) >= 1 => e[1] = FromInt(P[1])
                         /\ \A j \in 2..Len(P) :
                              e[j] = RAdd(RMul(alpha, FromInt(P[j])),
                                          RMul(RSub(FromInt(1), alpha), e[j - 1]))
                         /\ (\A j \in 1..Len(P) : P[j] = P[1]) =>
                              \A j \in 1..Len(P) : e[j] = FromInt(P[1])
                /\ P = <<1, 2>> => d["EMA12"][2] = Rat(15, 13)

C9_OneThenTwo ==
    \E k \in Built : show_ema /\ PricesAt(k) = <<1, 2>>

====
